---- MODULE Spec2Model ----
(***************************************************************************)
(* uoproxy: the world mirror (src/src/World.cxx, World.hxx) and the walk   *)
(* state of a connection (src/src/Connection.hxx).                         *)
(*                                                                         *)
(* A serial is kept as it lies in the packet: four bytes in network order, *)
(* <<b1, b2, b3, b4>> with b1 the most significant.  The lists of the      *)
(* world (list_head) are sequences, head first: list_add() prepends.       *)
(***************************************************************************)
EXTENDS Integers, Sequences, FiniteSets, TLC

VARIABLES
    items,                  \* World::items, head first
    mobiles,                \* World::mobiles, head first
    item_attach_sequence,   \* World::item_attach_sequence
    packet_start,           \* World::packet_start
    packet_mobile_update,   \* World::packet_mobile_update
    server,                 \* WalkState::server
    queue,                  \* WalkState::queue[0 .. queue_size - 1]
    seq_next,               \* WalkState::seq_next
    owner,                  \* the owner recorded with each queued request
    sender,                 \* history: the client each queued request came from
    forwarded,              \* history: the number of walk requests forwarded
    ls_state,               \* the state of each downstream client
    last                    \* history: the last operation, its input and output

worldvars == <<items, mobiles, item_attach_sequence, packet_start,
               packet_mobile_update>>
walkvars == <<server, queue, seq_next, owner, sender, forwarded, ls_state>>
vars == <<worldvars, walkvars, last>>

-----------------------------------------------------------------------------
(* Bounds of the model. *)

\* world_container_content is not called once the counter has reached this
MaxAttach == 2
\* longest item list of a container-content packet
MaxContent == 2

-----------------------------------------------------------------------------
(* Serials. *)

NoSerial == <<0, 0, 0, 0>>

\* ntohl(): the host value of a network-order serial, as <<high 16 bits, low 16 bits>>
ntohl(serial) == <<serial[1] * 256 + serial[2], serial[3] * 256 + serial[4]>>

\* host_serial < 0x40000000
IsMobileRange(host_serial) == host_serial[1] < 16384

\* host_serial < 0x80000000
IsEntityRange(host_serial) == host_serial[1] < 32768

\* serial & htonl(0x7fffffff)
MaskHighBit(serial) == <<serial[1] % 128, serial[2], serial[3], serial[4]>>

PlayerSerial == <<0, 0, 0, 1>>
Mobile2 == <<0, 0, 0, 2>>
ItemA == <<64, 0, 0, 1>>
ItemB == <<64, 0, 0, 2>>
\* ItemA with the legacy flag bit of a rev-6 world item set
ItemAFlagged == <<192, 0, 0, 1>>
\* a serial of the range the mirror does not manage
Foreign == <<128, 0, 0, 1>>

-----------------------------------------------------------------------------
(* Items. *)

NoCmd == "0"
NoPacket == [cmd |-> NoCmd]

\* Item::Item(serial)
NewItem(serial) ==
    [serial |-> serial,
     socket |-> [cmd |-> NoCmd],
     packet_container_open |-> NoPacket,
     attach_sequence |-> 0]

is_parent(item, parent_serial) ==
    CASE item.socket.cmd = "PCK_ContainerUpdate" ->
             item.socket.item.parent_serial = parent_serial
      [] item.socket.cmd = "PCK_Equip" ->
             item.socket.parent_serial = parent_serial
      [] OTHER -> FALSE

\* index of the first item of the list with this serial, 0 for nullptr
world_find_item(list, serial) ==
    IF \E k \in 1..Len(list) : list[k].serial = serial
    THEN CHOOSE k \in 1..Len(list) :
             /\ list[k].serial = serial
             /\ \A j \in 1..(k - 1) : list[j].serial # serial
    ELSE 0

\* make_item without the lookup: every call adds a record
make_item_always_new(list, serial) ==
    <<NewItem(serial)>> \o list

\* the list after make_item(world, serial): the found item stays, a new one
\* is added at the head
make_item(list, serial) ==
    IF world_find_item(list, serial) # 0
    THEN list
    ELSE <<NewItem(serial)>> \o list

\* make_item followed by an assignment to fields of the item it returned
UpdateItem(list, serial, fields) ==
    LET l2 == make_item(list, serial)
        k == world_find_item(l2, serial)
    IN [l2 EXCEPT ![k] = fields @@ l2[k]]

\* world_item_to_7() of the bridge: the rev-7 form of a rev-6 world item; the
\* legacy flag bit of the serial is masked off, the other fields are copied
world_item_to_7(p) ==
    [cmd |-> "PCK_WorldItem7", serial |-> MaskHighBit(p.serial),
     x |-> p.x, y |-> p.y]

\* world_world_item that stores the serial as it was sent
WorldItemSerialAsSent(list, p) ==
    UpdateItem(list, MaskHighBit(p.serial),
               [socket |-> [world_item_to_7(p) EXCEPT !.serial = p.serial]])

\* the items after world_world_item(world, p)
WorldItem(list, p) ==
    UpdateItem(list, MaskHighBit(p.serial), [socket |-> world_item_to_7(p)])

\* the items after world_world_item_7(world, p)
WorldItem7(list, p) ==
    UpdateItem(list, p.serial, [socket |-> p])

\* the items after world_equip(world, p)
Equip(list, p) ==
    UpdateItem(list, p.serial, [socket |-> p])

\* the items after world_container_open(world, p)
ContainerOpen(list, p) ==
    UpdateItem(list, p.serial, [packet_container_open |-> p])

\* world_container_update that leaves the socket of a known item as it is
ContainerUpdateNewOnly(list, p) ==
    IF world_find_item(list, p.item.serial) # 0
    THEN list
    ELSE UpdateItem(list, p.item.serial, [socket |-> p])

\* the items after world_container_update(world, p)
ContainerUpdate(list, p) ==
    UpdateItem(list, p.item.serial, [socket |-> p])

\* world_remove_item(): list_del() of the item at index k
world_remove_item(list, k) ==
    SubSeq(list, 1, k - 1) \o SubSeq(list, k + 1, Len(list))

\* the items a list_for_each_entry_safe() loop leaves when it removes every
\* item for which Gone holds
RemoveWhere(list, Gone(_)) ==
    SelectSeq(list, LAMBDA item : ~Gone(item))

\* the sweep looking at the container socket alone, not at equipped items
sweep_containers_only(list, parent_serial, attach_sequence) ==
    RemoveWhere(list, LAMBDA item :
        /\ item.socket.cmd = "PCK_ContainerUpdate"
        /\ item.socket.item.parent_serial = parent_serial
        /\ item.attach_sequence # attach_sequence)

\* world_sweep_container_update_inside(), with world->item_attach_sequence
world_sweep_container_update_inside(list, parent_serial, attach_sequence) ==
    RemoveWhere(list, LAMBDA item :
        /\ is_parent(item, parent_serial)
        /\ item.attach_sequence # attach_sequence)

\* the loop without the assignment to socket.container.cmd: a new item
\* keeps the cmd its constructor gave it
RECURSIVE ContentLoopCmdUnset(_, _, _, _)
ContentLoopCmdUnset(list, pitems, from, attach_sequence) ==
    IF from > Len(pitems)
    THEN list
    ELSE ContentLoopCmdUnset(
             UpdateItem(list, pitems[from].serial,
                        [socket |-> [cmd |-> IF world_find_item(
                                                    list, pitems[from].serial) = 0
                                             THEN NoCmd
                                             ELSE "PCK_ContainerUpdate",
                                     item |-> pitems[from]],
                         attach_sequence |-> attach_sequence]),
             pitems, from + 1, attach_sequence)

\* the loop of world_container_content() over p->items[from .. num]
RECURSIVE ContentLoop(_, _, _, _)
ContentLoop(list, pitems, from, attach_sequence) ==
    IF from > Len(pitems)
    THEN list
    ELSE ContentLoop(
             UpdateItem(list, pitems[from].serial,
                        [socket |-> [cmd |-> "PCK_ContainerUpdate",
                                     item |-> pitems[from]],
                         attach_sequence |-> attach_sequence]),
             pitems, from + 1, attach_sequence)

\* the items after world_container_content(world, p), the counter already
\* incremented to attach_sequence
ContainerContent(list, p, attach_sequence) ==
    LET l2 == ContentLoop(list, p.items, 1, attach_sequence)
    IN IF p.num # 0
       THEN world_sweep_container_update_inside(
                l2, p.items[1].parent_serial, attach_sequence)
       ELSE l2

\* the removal of the direct children alone, without the recursion
remove_direct_children(list, parent_serial) ==
    SelectSeq(list, LAMBDA i : ~is_parent(i, parent_serial))

\* remove_item_tree(): the direct children move to a temporary list (each
\* list_add() at its head), then each is deleted after its own tree
RECURSIVE remove_item_tree(_, _)
RECURSIVE RemoveTemp(_, _)
remove_item_tree(list, parent_serial) ==
    LET children == SelectSeq(list, LAMBDA i : is_parent(i, parent_serial))
        rest == SelectSeq(list, LAMBDA i : ~is_parent(i, parent_serial))
        temp == [k \in 1..Len(children) |-> children[Len(children) + 1 - k]]
    IN RemoveTemp(rest, temp)

RemoveTemp(list, temp) ==
    IF temp = <<>>
    THEN list
    ELSE RemoveTemp(remove_item_tree(list, Head(temp).serial), Tail(temp))

\* the items after world_remove_item_serial(world, serial)
world_remove_item_serial(list, serial) ==
    LET k == world_find_item(list, serial)
        l2 == IF k # 0 THEN world_remove_item(list, k) ELSE list
    IN remove_item_tree(l2, serial)

-----------------------------------------------------------------------------
(* Mobiles. *)

nullptr == [cmd |-> "nullptr"]

\* Mobile::Mobile(serial)
NewMobile(serial) ==
    [serial |-> serial,
     packet_mobile_incoming |-> nullptr,
     packet_mobile_status |-> nullptr]

\* index of the first mobile of the list with this serial, 0 for nullptr
find_mobile(list, serial) ==
    IF \E k \in 1..Len(list) : list[k].serial = serial
    THEN CHOOSE k \in 1..Len(list) :
             /\ list[k].serial = serial
             /\ \A j \in 1..(k - 1) : list[j].serial # serial
    ELSE 0

\* the list after add_mobile(world, serial)
add_mobile(list, serial) ==
    IF find_mobile(list, serial) # 0
    THEN list
    ELSE <<NewMobile(serial)>> \o list

\* *destp after replace_packet(destp, src, length); malloc() may fail
replace_packet(src, oom) ==
    IF oom THEN nullptr ELSE src

\* htons() of a host value: the two bytes in network order
htons(v) == <<(v \div 256) % 256, v % 256>>

\* ntohs() of two bytes in network order
ntohs(b) == b[1] * 256 + b[2]

\* sizeof(struct uo_packet_fragment_mobile_item): serial, item_id, layer, hue
FragmentSize == 9
\* a hue that takes no room
NoHueSize == 2 - 2

\* sizeof(item->hue)
HueSize == 2

\* the loop of read_equipped(): item points at byte pos of p->items, the
\* packet ends after Len(p.tail) bytes of p->items
RECURSIVE ReadLoop(_, _, _)
ReadLoop(list, p, pos) ==
    IF ~(pos + FragmentSize <= Len(p.tail))
    THEN list
    ELSE LET serial == SubSeq(p.tail, pos + 1, pos + 4)
             item_id == SubSeq(p.tail, pos + 5, pos + 6)
             has_hue == item_id[1] >= 128          \* item_id & htons(0x8000)
             equip == [cmd |-> "PCK_Equip",
                       serial |-> serial,
                       \* item_id & htons(0x3fff)
                       item_id |-> <<item_id[1] % 64, item_id[2]>>,
                       layer |-> p.tail[pos + 7],
                       parent_serial |-> p.serial,
                       hue |-> IF has_hue
                               THEN SubSeq(p.tail, pos + 8, pos + 9)
                               ELSE <<0, 0>>]
             next == IF has_hue
                     THEN pos + FragmentSize
                     ELSE pos + FragmentSize - HueSize
         IN IF serial = NoSerial
            THEN list
            ELSE ReadLoop(Equip(list, equip), p, next)

\* the items after read_equipped(world, p)
read_equipped(list, p) == ReadLoop(list, p, 0)

\* the fields world_mobile_incoming / _update / _moving copy from a packet
\* of the player's mobile into packet_start
StartFrom(p) ==
    [body |-> p.body, x |-> p.x, y |-> p.y, z |-> htons(p.z),
     direction |-> p.direction]

\* ... and into packet_mobile_update
MobileUpdateFrom(p) ==
    [body |-> p.body, hue |-> p.hue, flags |-> p.flags, x |-> p.x,
     y |-> p.y, direction |-> p.direction, z |-> p.z]

\* the list after fields of the mobile at index k are assigned, if that
\* mobile has a packet_mobile_incoming
PatchIncoming(list, k, fields) ==
    IF k # 0 /\ list[k].packet_mobile_incoming # nullptr
    THEN [list EXCEPT ![k].packet_mobile_incoming = fields @@ @]
    ELSE list

-----------------------------------------------------------------------------
(* The operations of the world mirror.  Each records its name and what it  *)
(* put out in last.                                                       *)

Did(op, out) == last' = [op |-> op, out |-> out]

Nothing == [to |-> {}]

\* an operation of the world leaves the walk state alone
DidWorld(op, out) ==
    /\ Did(op, out)
    /\ UNCHANGED <<server, queue, seq_next, owner, sender, forwarded,
                   ls_state>>

world_world_item(p) ==
    /\ items' = WorldItem(items, p)
    /\ DidWorld("world_world_item", Nothing)
    /\ UNCHANGED <<mobiles, item_attach_sequence, packet_start,
                   packet_mobile_update>>

world_world_item_7(p) ==
    /\ items' = WorldItem7(items, p)
    /\ DidWorld("world_world_item_7", Nothing)
    /\ UNCHANGED <<mobiles, item_attach_sequence, packet_start,
                   packet_mobile_update>>

world_equip(p) ==
    /\ items' = Equip(items, p)
    /\ DidWorld("world_equip", Nothing)
    /\ UNCHANGED <<mobiles, item_attach_sequence, packet_start,
                   packet_mobile_update>>

world_container_open(p) ==
    /\ items' = ContainerOpen(items, p)
    /\ DidWorld("world_container_open", Nothing)
    /\ UNCHANGED <<mobiles, item_attach_sequence, packet_start,
                   packet_mobile_update>>

world_container_update(p) ==
    /\ items' = ContainerUpdate(items, p)
    /\ DidWorld("world_container_update", Nothing)
    /\ UNCHANGED <<mobiles, item_attach_sequence, packet_start,
                   packet_mobile_update>>

\* the counter is an unsigned that would wrap after 2^32 calls; the model
\* stops calling at MaxAttach
world_container_content(p) ==
    /\ item_attach_sequence < MaxAttach
    /\ item_attach_sequence' = item_attach_sequence + 1
    /\ items' = ContainerContent(items, p, item_attach_sequence + 1)
    /\ DidWorld("world_container_content",
           [to |-> {},
            removed |-> Len(ContentLoop(items, p.items, 1,
                                        item_attach_sequence + 1)) - Len(items')])
    /\ UNCHANGED <<mobiles, packet_start, packet_mobile_update>>

world_mobile_incoming(p, oom) ==
    /\ IF p.serial = packet_start.serial
       THEN /\ packet_start' = StartFrom(p) @@ packet_start
            /\ packet_mobile_update' = MobileUpdateFrom(p) @@ packet_mobile_update
       ELSE UNCHANGED <<packet_start, packet_mobile_update>>
    /\ LET l2 == add_mobile(mobiles, p.serial)
           k == find_mobile(l2, p.serial)
       IN mobiles' = [l2 EXCEPT ![k].packet_mobile_incoming =
                                     replace_packet(p, oom)]
    /\ items' = read_equipped(items, p)
    /\ DidWorld("world_mobile_incoming", Nothing)
    /\ UNCHANGED item_attach_sequence

\* world_mobile_status without the comparison of the flags
world_mobile_status_always(p, oom) ==
    /\ LET l2 == add_mobile(mobiles, p.serial)
           k == find_mobile(l2, p.serial)
       IN mobiles' = [l2 EXCEPT ![k].packet_mobile_status =
                                     replace_packet(p, oom)]
    /\ DidWorld("world_mobile_status", [to |-> {}, replaced |-> TRUE])
    /\ UNCHANGED <<items, item_attach_sequence, packet_start,
                   packet_mobile_update>>

world_mobile_status(p, oom) ==
    /\ LET l2 == add_mobile(mobiles, p.serial)
           k == find_mobile(l2, p.serial)
       IN IF \/ l2[k].packet_mobile_status = nullptr
             \/ l2[k].packet_mobile_status.flags <= p.flags
          THEN /\ mobiles' = [l2 EXCEPT ![k].packet_mobile_status =
                                           replace_packet(p, oom)]
               /\ DidWorld("world_mobile_status", [to |-> {}, replaced |-> TRUE])
          ELSE /\ mobiles' = l2
               /\ DidWorld("world_mobile_status", [to |-> {}, replaced |-> FALSE])
    /\ UNCHANGED <<items, item_attach_sequence, packet_start,
                   packet_mobile_update>>

world_mobile_update(p) ==
    /\ IF packet_start.serial = p.serial
       THEN /\ packet_mobile_update' = p
            /\ packet_start' = StartFrom(p) @@ packet_start
       ELSE UNCHANGED <<packet_start, packet_mobile_update>>
    /\ mobiles' = PatchIncoming(mobiles, find_mobile(mobiles, p.serial),
                      [body |-> p.body, x |-> p.x, y |-> p.y, z |-> p.z,
                       direction |-> p.direction, hue |-> p.hue,
                       flags |-> p.flags])
    /\ DidWorld("world_mobile_update", Nothing)
    /\ UNCHANGED <<items, item_attach_sequence>>

\* world_mobile_moving with add_mobile in the place of find_mobile
world_mobile_moving_adds(p) ==
    /\ IF packet_start.serial = p.serial
       THEN /\ packet_start' = StartFrom(p) @@ packet_start
            /\ packet_mobile_update' = MobileUpdateFrom(p) @@ packet_mobile_update
       ELSE UNCHANGED <<packet_start, packet_mobile_update>>
    /\ LET l2 == add_mobile(mobiles, p.serial)
       IN mobiles' = PatchIncoming(l2, find_mobile(l2, p.serial),
                      [body |-> p.body, x |-> p.x, y |-> p.y, z |-> p.z,
                       direction |-> p.direction, hue |-> p.hue,
                       flags |-> p.flags, notoriety |-> p.notoriety])
    /\ DidWorld("world_mobile_moving", Nothing)
    /\ UNCHANGED <<items, item_attach_sequence>>

world_mobile_moving(p) ==
    /\ IF packet_start.serial = p.serial
       THEN /\ packet_start' = StartFrom(p) @@ packet_start
            /\ packet_mobile_update' = MobileUpdateFrom(p) @@ packet_mobile_update
       ELSE UNCHANGED <<packet_start, packet_mobile_update>>
    /\ mobiles' = PatchIncoming(mobiles, find_mobile(mobiles, p.serial),
                      [body |-> p.body, x |-> p.x, y |-> p.y, z |-> p.z,
                       direction |-> p.direction, hue |-> p.hue,
                       flags |-> p.flags, notoriety |-> p.notoriety])
    /\ DidWorld("world_mobile_moving", Nothing)
    /\ UNCHANGED <<items, item_attach_sequence>>

\* world_mobile_zone without the copy into packet_mobile_update
world_mobile_zone_start_only(p) ==
    /\ packet_start' = [x |-> p.x, y |-> p.y, z |-> p.z] @@ packet_start
    /\ DidWorld("world_mobile_zone", Nothing)
    /\ UNCHANGED <<items, mobiles, item_attach_sequence, packet_mobile_update>>

world_mobile_zone(p) ==
    /\ packet_start' = [x |-> p.x, y |-> p.y, z |-> p.z] @@ packet_start
    /\ packet_mobile_update' =
           [x |-> p.x, y |-> p.y, z |-> ntohs(p.z)] @@ packet_mobile_update
    /\ DidWorld("world_mobile_zone", Nothing)
    /\ UNCHANGED <<items, mobiles, item_attach_sequence>>

\* the mobiles after world_remove_mobile_serial's find_mobile / world_remove_mobile
world_remove_mobile(list, serial) ==
    LET k == find_mobile(list, serial)
    IN IF k # 0
       THEN SubSeq(list, 1, k - 1) \o SubSeq(list, k + 1, Len(list))
       ELSE list

\* world_remove_serial that takes every serial below 0x80000000 for an item
world_remove_serial_items_only(serial) ==
    /\ IF IsEntityRange(ntohl(serial))
       THEN /\ items' = world_remove_item_serial(items, serial)
            /\ UNCHANGED mobiles
       ELSE UNCHANGED <<items, mobiles>>
    /\ DidWorld("world_remove_serial",
           [to |-> {}, serial |-> serial,
            removed |-> Len(items) - Len(items')])
    /\ UNCHANGED <<item_attach_sequence, packet_start, packet_mobile_update>>

world_remove_serial(serial) ==
    /\ IF IsMobileRange(ntohl(serial))
       THEN /\ mobiles' = world_remove_mobile(mobiles, serial)
            /\ items' = remove_item_tree(items, serial)
       ELSE IF IsEntityRange(ntohl(serial))
       THEN /\ items' = world_remove_item_serial(items, serial)
            /\ UNCHANGED mobiles
       ELSE UNCHANGED <<items, mobiles>>
    /\ DidWorld("world_remove_serial",
           [to |-> {}, serial |-> serial,
            removed |-> Len(items) - Len(items')])
    /\ UNCHANGED <<item_attach_sequence, packet_start, packet_mobile_update>>

\* world_walked() without the copy into the player's packet_mobile_incoming
WalkedSnapshotsOnly(x, y, direction, notoriety) ==
    /\ packet_start' = [x |-> x, y |-> y, direction |-> direction] @@ packet_start
    /\ packet_mobile_update' =
           [x |-> x, y |-> y, direction |-> direction] @@ packet_mobile_update
    /\ UNCHANGED <<items, mobiles, item_attach_sequence>>

\* the body of world_walked(), on the world alone
Walked(x, y, direction, notoriety) ==
    /\ packet_start' = [x |-> x, y |-> y, direction |-> direction] @@ packet_start
    /\ packet_mobile_update' =
           [x |-> x, y |-> y, direction |-> direction] @@ packet_mobile_update
    /\ mobiles' = PatchIncoming(mobiles, find_mobile(mobiles, packet_start'.serial),
                      [x |-> x, y |-> y, direction |-> direction,
                       notoriety |-> notoriety])
    /\ UNCHANGED <<items, item_attach_sequence>>

\* world_walk_cancel without the direction
WalkCancelledNoDirection(x, y, direction) ==
    /\ packet_start' = [x |-> x, y |-> y] @@ packet_start
    /\ packet_mobile_update' = [x |-> x, y |-> y] @@ packet_mobile_update
    /\ mobiles' = PatchIncoming(mobiles, find_mobile(mobiles, packet_start'.serial),
                      [x |-> x, y |-> y])
    /\ UNCHANGED <<items, item_attach_sequence>>

\* the body of world_walk_cancel(), on the world alone
WalkCancelled(x, y, direction) ==
    /\ packet_start' = [x |-> x, y |-> y, direction |-> direction] @@ packet_start
    /\ packet_mobile_update' =
           [x |-> x, y |-> y, direction |-> direction] @@ packet_mobile_update
    /\ mobiles' = PatchIncoming(mobiles, find_mobile(mobiles, packet_start'.serial),
                      [x |-> x, y |-> y, direction |-> direction])
    /\ UNCHANGED <<items, item_attach_sequence>>

world_walked(p) ==
    /\ Walked(p.x, p.y, p.direction, p.notoriety)
    /\ DidWorld("world_walked", Nothing)

world_walk_cancel(p) ==
    /\ WalkCancelled(p.x, p.y, p.direction)
    /\ DidWorld("world_walk_cancel", Nothing)

-----------------------------------------------------------------------------
(* The walk coordinator.  Connection.hxx declares its state (WalkState) and *)
(* its operations; their bodies follow section 4.3 of the specification.    *)

\* a queue one entry longer
QueueOneLonger == 4 + 1

MAX_WALK_QUEUE == 4

\* the downstream clients of the connection
Clients == {"A", "B"}

\* with two clients the model forwards no walk request once seq_next has
\* reached this
MaxSeq == 5

\* the count of the forwarded walk requests stays at this once it is reached
MaxForwarded == 258

NoServer == "nullptr"

\* the successor modulo 256 that does not skip 0
NextSeqThroughZero(seq) == (seq + 1) % 256

\* the successor of a sequence byte: modulo 256, skipping 0
NextSeq(seq) == IF (seq + 1) % 256 = 0 THEN 1 ELSE (seq + 1) % 256

\* the comparison of the plain values, without the window
SeqLeqPlain(seq, ack) == seq <= ack

\* seq is at or before the acknowledged one: the 128 values ending at ack
\* are the past, the other 128 the future
SeqLeq(seq, ack) == (ack - seq + 256) % 256 < 128

\* the number of entries connection_walk_ack() pops from the head
RECURSIVE PopCount(_, _)
PopCount(q, ack) ==
    IF q # <<>> /\ SeqLeq(Head(q).seq, ack)
    THEN 1 + PopCount(Tail(q), ack)
    ELSE 0

HeadOwner(owners) == IF owners = <<>> THEN NoServer ELSE Head(owners)

\* the position and direction of the player in a packet_start
Position(start) ==
    [x |-> start.x, y |-> start.y, direction |-> start.direction]

Forward(to) == IF to = NoServer THEN {} ELSE {to}

\* connection_walk_request with the plain successor behind a queued request
connection_walk_request_plain_successor(ls, p) ==
    /\ IF Len(queue) >= MAX_WALK_QUEUE
       THEN /\ UNCHANGED walkvars
            /\ Did("connection_walk_request", [to |-> {}, dropped |-> TRUE])
       ELSE LET seq == IF queue = <<>> THEN seq_next
                       ELSE (queue[Len(queue)].seq + 1) % 256
            IN /\ queue' = Append(queue, [packet |-> p, seq |-> seq])
               /\ owner' = Append(owner, ls)
               /\ sender' = Append(sender, ls)
               /\ forwarded' = IF forwarded < MaxForwarded
                                THEN forwarded + 1 ELSE forwarded
               /\ UNCHANGED ls_state
               /\ seq_next' = NextSeq(seq_next)
               /\ server' = IF queue = <<>> THEN ls ELSE server
               /\ Did("connection_walk_request",
                      [to |-> {}, dropped |-> FALSE, seq |-> seq])
    /\ UNCHANGED worldvars

connection_walk_request(ls, p) ==
    /\ IF Len(queue) >= MAX_WALK_QUEUE
       THEN /\ UNCHANGED walkvars
            /\ Did("connection_walk_request", [to |-> {}, dropped |-> TRUE])
       ELSE LET seq == IF queue = <<>> THEN seq_next
                       ELSE NextSeq(queue[Len(queue)].seq)
            IN /\ queue' = Append(queue, [packet |-> p, seq |-> seq])
               /\ owner' = Append(owner, ls)
               /\ sender' = Append(sender, ls)
               /\ forwarded' = IF forwarded < MaxForwarded
                                THEN forwarded + 1 ELSE forwarded
               /\ UNCHANGED ls_state
               /\ seq_next' = NextSeq(seq_next)
               /\ server' = IF queue = <<>> THEN ls ELSE server
               /\ Did("connection_walk_request",
                      [to |-> {}, dropped |-> FALSE, seq |-> seq])
    /\ UNCHANGED worldvars

\* connection_walk_ack forwarding to the owner of the head it leaves
connection_walk_ack_to_new_head(p) ==
    LET n == PopCount(queue, p.seq)
    IN IF n = 0
       THEN /\ UNCHANGED <<worldvars, walkvars>>
            /\ Did("connection_walk_ack",
                   [to |-> {}, seen |-> Position(packet_start)])
       ELSE /\ Walked(queue[n].packet.x, queue[n].packet.y,
                      queue[n].packet.direction, p.notoriety)
            /\ queue' = SubSeq(queue, n + 1, Len(queue))
            /\ owner' = SubSeq(owner, n + 1, Len(owner))
            /\ sender' = SubSeq(sender, n + 1, Len(sender))
            /\ server' = HeadOwner(owner')
            /\ UNCHANGED <<seq_next, forwarded, ls_state>>
            /\ Did("connection_walk_ack",
                   [to |-> Forward(HeadOwner(owner')),
                    seen |-> Position(packet_start')])

connection_walk_ack(p) ==
    LET n == PopCount(queue, p.seq)
    IN IF n = 0
       THEN /\ UNCHANGED <<worldvars, walkvars>>
            /\ Did("connection_walk_ack",
                   [to |-> {}, seen |-> Position(packet_start)])
       ELSE /\ Walked(queue[n].packet.x, queue[n].packet.y,
                      queue[n].packet.direction, p.notoriety)
            /\ queue' = SubSeq(queue, n + 1, Len(queue))
            /\ owner' = SubSeq(owner, n + 1, Len(owner))
            /\ sender' = SubSeq(sender, n + 1, Len(sender))
            /\ server' = HeadOwner(owner')
            /\ UNCHANGED <<seq_next, forwarded, ls_state>>
            /\ Did("connection_walk_ack",
                   [to |-> Forward(owner[n]),
                    seen |-> Position(packet_start')])

\* connection_walk_cancel forwarding before it records the position
connection_walk_cancel_forward_first(p) ==
    /\ queue' = <<>>
    /\ owner' = <<>>
    /\ sender' = <<>>
    /\ server' = NoServer
    /\ UNCHANGED <<seq_next, forwarded, ls_state>>
    /\ WalkCancelled(p.x, p.y, p.direction)
    /\ Did("connection_walk_cancel",
           [to |-> Forward(server), seen |-> Position(packet_start)])

connection_walk_cancel(p) ==
    /\ queue' = <<>>
    /\ owner' = <<>>
    /\ sender' = <<>>
    /\ server' = NoServer
    /\ UNCHANGED <<seq_next, forwarded, ls_state>>
    /\ WalkCancelled(p.x, p.y, p.direction)
    /\ Did("connection_walk_cancel",
           [to |-> Forward(server), seen |-> Position(packet_start')])

\* connection_walk_server_removed clearing the server pointer alone
connection_walk_server_removed_pointer_only(ls) ==
    /\ server' = IF server = ls THEN NoServer ELSE server
    /\ UNCHANGED <<queue, seq_next, owner, sender, forwarded, worldvars>>
    /\ Did("connection_walk_server_removed", Nothing)

connection_walk_server_removed(ls) ==
    /\ owner' = [k \in 1..Len(owner) |->
                    IF owner[k] = ls THEN NoServer ELSE owner[k]]
    /\ server' = IF server = ls THEN NoServer ELSE server
    /\ UNCHANGED <<queue, seq_next, sender, forwarded, worldvars>>
    /\ Did("connection_walk_server_removed", Nothing)

\* connection_server_zombify(): an active client leaves the fan-out, and the
\* walk state is told
connection_server_zombify(ls) ==
    /\ ls_state[ls] = "active"
    /\ ls_state' = [ls_state EXCEPT ![ls] = "zombie"]
    /\ connection_walk_server_removed(ls)

\* connection_server_dispose(): a client is unlinked from any state, and the
\* walk state is told
connection_server_dispose(ls) ==
    /\ ls_state[ls] # "disposed"
    /\ ls_state' = [ls_state EXCEPT ![ls] = "disposed"]
    /\ connection_walk_server_removed(ls)

-----------------------------------------------------------------------------
(* The initial state: an empty mirror after the start packet of the player, *)
(* the two snapshots of the player agreeing, and a fresh WalkState.         *)

Init ==
    /\ items = <<>>
    /\ mobiles = <<>>
    /\ item_attach_sequence = 0
    /\ packet_start = [cmd |-> "PCK_Start", serial |-> PlayerSerial,
                       body |-> 400, x |-> 100, y |-> 200, z |-> htons(5),
                       direction |-> 0]
    /\ packet_mobile_update = [cmd |-> "PCK_MobileUpdate",
                               serial |-> PlayerSerial, body |-> 400,
                               hue |-> 0, flags |-> 0, x |-> 100, y |-> 200,
                               direction |-> 0, z |-> 5]
    /\ server = NoServer
    /\ queue = <<>>
    /\ seq_next = 0
    /\ owner = <<>>
    /\ sender = <<>>
    /\ forwarded = 0
    /\ ls_state = [ls \in Clients |-> "active"]
    /\ last = [op |-> "init", out |-> Nothing]

-----------------------------------------------------------------------------
(* Packets. *)

\* sequences over S of length 0 .. n
RECURSIVE SeqsUpTo(_, _)
SeqsUpTo(S, n) ==
    IF n = 0 THEN {<<>>}
    ELSE LET shorter == SeqsUpTo(S, n - 1)
         IN shorter \cup {Append(q, e) : q \in shorter, e \in S}

WorldItemPackets(serials) ==
    {[cmd |-> "PCK_WorldItem", serial |-> s, x |-> 10, y |-> 20] : s \in serials}

WorldItem7Packets(serials) ==
    {[cmd |-> "PCK_WorldItem7", serial |-> s, x |-> 10, y |-> 20] : s \in serials}

EquipPackets(serials, parents) ==
    {[cmd |-> "PCK_Equip", serial |-> s, item_id |-> <<14, 117>>, layer |-> 1,
      parent_serial |-> m, hue |-> <<0, 0>>] : s \in serials, m \in parents}

ContainerOpenPackets(serials) ==
    {[cmd |-> "PCK_ContainerOpen", serial |-> s, gump_id |-> 60] : s \in serials}

ContainerItems(serials, parents) ==
    {[serial |-> s, parent_serial |-> c] : s \in serials, c \in parents}

ContainerUpdatePackets(serials, parents) ==
    {[cmd |-> "PCK_ContainerUpdate", item |-> i] :
        i \in ContainerItems(serials, parents)}

\* the container-content packet that lists the serials l as the content of
\* parent c; the parent is a field of each listed item
ContainerContentPacket(c, l) ==
    [cmd |-> "PCK_ContainerContent", num |-> Len(l),
     items |-> [k \in 1..Len(l) |-> [serial |-> l[k], parent_serial |-> c]]]

\* an entry of the equipment list of a mobile-incoming packet, with the
\* hue when bit 0x8000 of the item id is set
EntryWithHue(serial) == serial \o <<128 + 14, 117, 1, 4, 210>>
EntryWithoutHue(serial) == serial \o <<14, 117, 2>>

MobileIncomingPackets(serials, places, tails) ==
    {[cmd |-> "PCK_MobileIncoming", serial |-> s, body |-> pl.body,
      x |-> pl.x, y |-> pl.y, z |-> pl.z, direction |-> pl.direction,
      hue |-> 0, flags |-> 0, notoriety |-> 1, tail |-> t] :
        s \in serials, pl \in places, t \in tails}

MobileStatusPackets(serials, flags) ==
    {[cmd |-> "PCK_MobileStatus", serial |-> s, flags |-> f] :
        s \in serials, f \in flags}

MobileUpdatePackets(serials, places) ==
    {[cmd |-> "PCK_MobileUpdate", serial |-> s, body |-> pl.body, hue |-> 0,
      flags |-> 0, x |-> pl.x, y |-> pl.y, direction |-> pl.direction,
      z |-> pl.z] : s \in serials, pl \in places}

MobileMovingPackets(serials, places) ==
    {[cmd |-> "PCK_MobileMoving", serial |-> s, body |-> pl.body, hue |-> 0,
      flags |-> 0, x |-> pl.x, y |-> pl.y, direction |-> pl.direction,
      z |-> pl.z, notoriety |-> 2] : s \in serials, pl \in places}

ZoneChangePackets(places) ==
    {[cmd |-> "PCK_ZoneChange", x |-> pl.x, y |-> pl.y, z |-> htons(pl.z)] :
        pl \in places}

WalkedCalls(places) ==
    {[x |-> pl.x, y |-> pl.y, direction |-> pl.direction, notoriety |-> 3] :
        pl \in places}

WalkCancelCalls(places) ==
    {[x |-> pl.x, y |-> pl.y, direction |-> pl.direction] : pl \in places}

-----------------------------------------------------------------------------
(* The mirror under item traffic: the operations that add, change or       *)
(* remove items and mobiles, with the serials and parents varied.          *)

Home == [body |-> 400, x |-> 100, y |-> 200, z |-> 5, direction |-> 0]

ItemKeys == {ItemA, ItemB}
ContentParents == {ItemA, PlayerSerial}
ContentLists == SeqsUpTo(ItemKeys, MaxContent)
Removable == {PlayerSerial, ItemA, ItemB, Foreign}

ItemsTails ==
    {EntryWithHue(ItemA) \o EntryWithoutHue(ItemB) \o NoSerial,
     NoSerial}

NextItems ==
    \/ \E p \in WorldItemPackets({ItemAFlagged}) : world_world_item(p)
    \/ \E p \in WorldItem7Packets(ItemKeys) : world_world_item_7(p)
    \/ \E p \in EquipPackets(ItemKeys, {PlayerSerial}) : world_equip(p)
    \/ \E p \in ContainerOpenPackets({ItemA}) : world_container_open(p)
    \/ \E p \in ContainerUpdatePackets(ItemKeys, {ItemA, ItemB, Foreign}) :
           world_container_update(p)
    \/ \E c \in ContentParents, l \in ContentLists :
           world_container_content(ContainerContentPacket(c, l))
    \/ \E s \in Removable : world_remove_serial(s)
    \/ \E p \in MobileIncomingPackets({PlayerSerial}, {Home}, ItemsTails) :
           world_mobile_incoming(p, FALSE)
    \/ \E p \in MobileStatusPackets({PlayerSerial}, {0}) :
           world_mobile_status(p, FALSE)

SpecItems == Init /\ [][NextItems]_vars

-----------------------------------------------------------------------------
(* The mirror under mobile traffic: the operations on mobiles and on the   *)
(* snapshots of the player, with the places varied; allocation may fail.   *)

Away == [body |-> 401, x |-> 101, y |-> 201, z |-> 5, direction |-> 1]
Places == {Home, Away}
StatusFlags == {0, 1, 2}

NextMobiles ==
    \/ \E p \in MobileIncomingPackets({PlayerSerial}, Places, {NoSerial})
                \cup MobileIncomingPackets({Mobile2}, {Away}, {NoSerial}),
          oom \in BOOLEAN : world_mobile_incoming(p, oom)
    \/ \E p \in MobileStatusPackets({PlayerSerial}, StatusFlags)
                \cup MobileStatusPackets({Mobile2}, {1}),
          oom \in BOOLEAN : world_mobile_status(p, oom)
    \/ \E p \in MobileUpdatePackets({PlayerSerial}, Places)
                \cup MobileUpdatePackets({Mobile2}, {Away}) :
           world_mobile_update(p)
    \/ \E p \in MobileMovingPackets({PlayerSerial}, Places)
                \cup MobileMovingPackets({Mobile2}, {Away}) :
           world_mobile_moving(p)
    \/ \E p \in ZoneChangePackets(Places) : world_mobile_zone(p)
    \/ \E p \in WalkedCalls(Places) : world_walked(p)
    \/ \E p \in WalkCancelCalls(Places) : world_walk_cancel(p)
    \/ \E s \in {PlayerSerial, Mobile2} : world_remove_serial(s)

SpecMobiles == Init /\ [][NextMobiles]_vars

-----------------------------------------------------------------------------
(* The walk coordinator with two downstream clients.                       *)

WalkPackets ==
    {[cmd |-> "PCK_Walk", x |-> pl.x, y |-> pl.y, direction |-> pl.direction] :
        pl \in Places}

WalkAckPackets ==
    {[cmd |-> "PCK_WalkAck", seq |-> q, notoriety |-> 1] : q \in 0..MaxSeq}

WalkCancelPackets ==
    {[cmd |-> "PCK_WalkCancel", seq |-> q, x |-> 105, y |-> 206,
      direction |-> d] : q \in {1, 2}, d \in {0, 1}}

NextWalk ==
    \/ \E ls \in Clients, p \in WalkPackets :
           /\ seq_next < MaxSeq
           /\ ls_state[ls] = "active"
           /\ connection_walk_request(ls, p)
    \/ \E p \in WalkAckPackets : connection_walk_ack(p)
    \/ \E p \in WalkCancelPackets : connection_walk_cancel(p)
    \/ \E ls \in Clients : connection_server_zombify(ls)
    \/ \E ls \in Clients : connection_server_dispose(ls)

SpecWalk == Init /\ [][NextWalk]_vars

-----------------------------------------------------------------------------
(* What the claims speak of. *)

Range(q) == {q[k] : k \in 1..Len(q)}

SocketVariants == {"PCK_WorldItem7", "PCK_ContainerUpdate", "PCK_Equip"}

\* the parent relation: the outer container of an item in a container, the
\* wearing mobile of an equipped item, nothing for the others
HasParent(item) == item.socket.cmd \in {"PCK_ContainerUpdate", "PCK_Equip"}

ParentOf(item) ==
    IF item.socket.cmd = "PCK_ContainerUpdate"
    THEN item.socket.item.parent_serial
    ELSE item.socket.parent_serial

\* the serials of the items of the list whose parent is p
ChildrenOf(list, p) ==
    {list[k].serial : k \in {j \in 1..Len(list) :
                                HasParent(list[j]) /\ ParentOf(list[j]) = p}}

\* the serials of the items of the list reached from the serials of S by n
\* steps of the parent relation, or fewer
RECURSIVE Below(_, _, _)
Below(list, S, n) ==
    IF n = 0 THEN {}
    ELSE LET kids == UNION {ChildrenOf(list, p) : p \in S}
         IN kids \cup Below(list, kids, n - 1)

\* the serials of the items that have s as an ancestor
DescendantsOf(list, s) == Below(list, {s}, Len(list))

-----------------------------------------------------------------------------
(* C1, as stated: after replace_container_content(p, L), for a list L of   *)
(* any length from zero up, the items whose parent is p are exactly the     *)
(* serials of L.  world_container_content sweeps nothing for an empty L.    *)
C1_AnyListReplacesContent ==
    [][\A c \in ContentParents, l \in ContentLists :
          world_container_content(ContainerContentPacket(c, l))
              => ChildrenOf(items', c) = Range(l)]_vars

(* C1, amended: after replace_container_content(p, L) with a list L of at  *)
(* least one item, the items whose parent (container or equipped socket)   *)
(* is p are exactly the serials of L, whatever operations came before.     *)
C1_NonEmptyListReplacesContent ==
    [][\A c \in ContentParents, l \in ContentLists :
          (l # <<>> /\ world_container_content(ContainerContentPacket(c, l)))
              => ChildrenOf(items', c) = Range(l)]_vars

\* the second content of the player has swept an item: ItemB alone is left
\* below the player, stamped with the new generation
C1_Witness ==
    /\ last.op = "world_container_content"
    /\ last.out.removed = 1
    /\ item_attach_sequence = 2
    /\ ChildrenOf(items, PlayerSerial) = {ItemB}
    /\ \A k \in 1..Len(items) :
          items[k].serial = ItemB => items[k].attach_sequence = 2

(* C2, as stated: after remove_serial(s), for any serial s, no item left   *)
(* in the mirror has s as an ancestor.  world_remove_serial does nothing   *)
(* for a serial of 0x80000000 or above.                                    *)
C2_AnySerialLeavesNoDescendant ==
    [][\A s \in Removable :
          world_remove_serial(s) => DescendantsOf(items', s) = {}]_vars

(* C2, amended: after remove_serial(s) for a serial s whose host-order     *)
(* value is below 0x80000000 (a mobile or an item), no item left in the    *)
(* mirror has s as an ancestor through the parent relation, at any depth:  *)
(* every item that had s as an ancestor before the call is gone after it.  *)
C2_ManagedSerialLeavesNoDescendant ==
    [][\A s \in Removable :
          (ntohl(s)[1] < 32768 /\ world_remove_serial(s))
              => /\ DescendantsOf(items', s) = {}
                 /\ \A k \in 1..Len(items') :
                       items'[k].serial \notin DescendantsOf(items, s)]_vars

\* the removal of the player has taken two items with it and left none
C2_Witness ==
    /\ last.op = "world_remove_serial"
    /\ last.out.serial = PlayerSerial
    /\ last.out.removed = 2
    /\ items = <<>>

(* C3, as stated: every item of the mirror has exactly one of the three    *)
(* socket variants set.  world_container_open on a serial the mirror does  *)
(* not hold leaves an item with none.                                      *)
C3_EveryItemHasSocket ==
    \A k \in 1..Len(items) : items[k].socket.cmd \in SocketVariants

(* C3, amended: every item of the mirror has exactly one of the three      *)
(* socket variants set, or none; an item with none holds a container-open  *)
(* record: open_container made it and no upsert has named it since.        *)
C3_SocketOrOpenedOnly ==
    \A k \in 1..Len(items) :
        \/ items[k].socket.cmd \in SocketVariants
        \/ /\ items[k].socket.cmd = NoCmd
           /\ items[k].packet_container_open.cmd = "PCK_ContainerOpen"

\* an item that open_container made, and one with a socket beside it
C3_Witness ==
    /\ \E k \in 1..Len(items) : items[k].socket.cmd = NoCmd
    /\ \E k \in 1..Len(items) : items[k].socket.cmd = "PCK_ContainerUpdate"

(* C4: the mirror holds at most one item and at most one mobile of any     *)
(* serial; an upsert of a serial it holds updates the record it holds.     *)
C4_OneRecordPerSerial ==
    /\ \A j, k \in 1..Len(items) :
          items[j].serial = items[k].serial => j = k
    /\ \A j, k \in 1..Len(mobiles) :
          mobiles[j].serial = mobiles[k].serial => j = k

\* an item stamped by a container content and equipped afterwards, and a
\* mobile that two upserts have filled: each is one record
C4_Witness ==
    /\ \E k \in 1..Len(items) :
          /\ items[k].socket.cmd = "PCK_Equip"
          /\ items[k].attach_sequence > 0
    /\ \E k \in 1..Len(mobiles) :
          /\ mobiles[k].packet_mobile_incoming # nullptr
          /\ mobiles[k].packet_mobile_status # nullptr

-----------------------------------------------------------------------------
(* The walk coordinator with one client through all the sequence bytes:    *)
(* the client walks one way, the server acknowledges or cancels.           *)

OneWalk == [cmd |-> "PCK_Walk", x |-> 101, y |-> 201, direction |-> 1]

NextWalkWrap ==
    \/ connection_walk_request("A", OneWalk)
    \/ \E q \in 0..255 :
           connection_walk_ack([cmd |-> "PCK_WalkAck", seq |-> q,
                                notoriety |-> 1])
    \/ \E p \in WalkCancelPackets : connection_walk_cancel(p)

SpecWalkWrap == Init /\ [][NextWalkWrap]_vars

-----------------------------------------------------------------------------
(* C5: from a state where the two snapshots of the player agree, after any *)
(* sequence of the mobile operations, for the player or another serial,    *)
(* packet_start and packet_mobile_update hold the same x, y, body and      *)
(* direction.                                                              *)
C5_SnapshotsAgree ==
    /\ packet_start.x = packet_mobile_update.x
    /\ packet_start.y = packet_mobile_update.y
    /\ packet_start.body = packet_mobile_update.body
    /\ packet_start.direction = packet_mobile_update.direction

\* the snapshots after several operations: the body of an incoming packet,
\* the place of a cancelled walk, with another mobile in the mirror
C5_Witness ==
    /\ last.op = "world_walk_cancel"
    /\ packet_start.body = 401
    /\ packet_start.x = 100
    /\ find_mobile(mobiles, Mobile2) # 0

\* the flags of the stored status of the mobile s, -1 if it has none
StoredFlags(list, s) ==
    IF find_mobile(list, s) # 0
       /\ list[find_mobile(list, s)].packet_mobile_status # nullptr
    THEN list[find_mobile(list, s)].packet_mobile_status.flags
    ELSE -1

C7_QueueAtMostFour ==
    [][/\ Len(queue') <= 4
       /\ \A ls \in Clients, p \in WalkPackets :
             (Len(queue) = 4 /\ connection_walk_request(ls, p))
                 => /\ queue' = queue
                    /\ last'.out.dropped]_vars

\* the fifth request has been dropped
C7_Witness ==
    /\ last.op = "connection_walk_request"
    /\ last.out.dropped
    /\ Len(queue) = 4

C10_CancelFlushes ==
    [][\A p \in WalkCancelPackets :
          connection_walk_cancel(p)
              => /\ queue' = <<>>
                 /\ packet_start'.x = p.x
                 /\ packet_start'.y = p.y
                 /\ packet_start'.direction = p.direction
                 /\ last'.out.to \subseteq
                        (IF queue = <<>> THEN {} ELSE {sender[1]})]_vars

\* a cancel has flushed the queue, moved the player and gone to A
C10_Witness ==
    /\ last.op = "connection_walk_cancel"
    /\ last.out.to = {"A"}
    /\ queue = <<>>
    /\ packet_start.x = 105
    /\ packet_start.y = 206
    /\ packet_start.direction = 0
    /\ seq_next = 3

-----------------------------------------------------------------------------
(* The replay of the world to a client that attaches: the ambient packets, *)
(* then every mobile by its last incoming and status packets, then every   *)
(* item by socket variant (ground, container, equipped), the container     *)
(* open record of an item before the items of the containers.              *)

\* the packets of the items of the list whose socket has this cmd
RECURSIVE SocketsOf(_, _)
SocketsOf(list, cmd) ==
    IF list = <<>> THEN <<>>
    ELSE (IF Head(list).socket.cmd = cmd THEN <<Head(list).socket>> ELSE <<>>)
         \o SocketsOf(Tail(list), cmd)

RECURSIVE OpensOf(_)
OpensOf(list) ==
    IF list = <<>> THEN <<>>
    ELSE (IF Head(list).packet_container_open # NoPacket
          THEN <<Head(list).packet_container_open>> ELSE <<>>)
         \o OpensOf(Tail(list))

RECURSIVE MobilePacketsOf(_)
MobilePacketsOf(list) ==
    IF list = <<>> THEN <<>>
    ELSE (IF Head(list).packet_mobile_incoming # nullptr
          THEN <<Head(list).packet_mobile_incoming>> ELSE <<>>)
         \o (IF Head(list).packet_mobile_status # nullptr
             THEN <<Head(list).packet_mobile_status>> ELSE <<>>)
         \o MobilePacketsOf(Tail(list))

\* the packets attach_send_world() sends for the mirror m, in their order
attach_send_world(m) ==
    <<m.packet_start, m.packet_mobile_update>>
    \o MobilePacketsOf(m.mobiles)
    \o SocketsOf(m.items, "PCK_WorldItem7")
    \o OpensOf(m.items)
    \o SocketsOf(m.items, "PCK_ContainerUpdate")
    \o SocketsOf(m.items, "PCK_Equip")

\* the mirror of the current state
Mirror ==
    [items |-> items, mobiles |-> mobiles, packet_start |-> packet_start,
     packet_mobile_update |-> packet_mobile_update]

\* the mirror m after world_mobile_incoming(p), memory permitting
MobileIncomingInto(m, p) ==
    LET l2 == add_mobile(m.mobiles, p.serial)
        k == find_mobile(l2, p.serial)
        player == p.serial = m.packet_start.serial
    IN [items |-> read_equipped(m.items, p),
        mobiles |-> [l2 EXCEPT ![k].packet_mobile_incoming =
                                   replace_packet(p, FALSE)],
        packet_start |-> IF player THEN StartFrom(p) @@ m.packet_start
                         ELSE m.packet_start,
        packet_mobile_update |->
            IF player THEN MobileUpdateFrom(p) @@ m.packet_mobile_update
            ELSE m.packet_mobile_update]

\* the mirror m after world_mobile_status(p), memory permitting
MobileStatusInto(m, p) ==
    LET l2 == add_mobile(m.mobiles, p.serial)
        k == find_mobile(l2, p.serial)
    IN [m EXCEPT !.mobiles =
           IF \/ l2[k].packet_mobile_status = nullptr
              \/ l2[k].packet_mobile_status.flags <= p.flags
           THEN [l2 EXCEPT ![k].packet_mobile_status = replace_packet(p, FALSE)]
           ELSE l2]

\* the mirror m after the world operation of the packet p
ApplyPacket(m, p) ==
    CASE p.cmd = "PCK_Start" -> [m EXCEPT !.packet_start = p]
      [] p.cmd = "PCK_MobileUpdate" -> [m EXCEPT !.packet_mobile_update = p]
      [] p.cmd = "PCK_MobileIncoming" -> MobileIncomingInto(m, p)
      [] p.cmd = "PCK_MobileStatus" -> MobileStatusInto(m, p)
      [] p.cmd = "PCK_WorldItem7" -> [m EXCEPT !.items = WorldItem7(@, p)]
      [] p.cmd = "PCK_ContainerOpen" -> [m EXCEPT !.items = ContainerOpen(@, p)]
      [] p.cmd = "PCK_ContainerUpdate" ->
             [m EXCEPT !.items = ContainerUpdate(@, p)]
      [] p.cmd = "PCK_Equip" -> [m EXCEPT !.items = Equip(@, p)]

RECURSIVE ApplyStream(_, _)
ApplyStream(m, stream) ==
    IF stream = <<>> THEN m
    ELSE ApplyStream(ApplyPacket(m, Head(stream)), Tail(stream))

\* a mirror with nothing in it
EmptyMirror ==
    [items |-> <<>>, mobiles |-> <<>>, packet_start |-> NoPacket,
     packet_mobile_update |-> NoPacket]

\* the mirror a fresh one becomes by the replay of the current one
Replayed == ApplyStream(EmptyMirror, attach_send_world(Mirror))

\* what the comparison of two mirrors looks at: the mobiles with their
\* records, the items with socket variant and parent, the two snapshots
ItemView(i) ==
    [serial |-> i.serial, socket |-> i.socket.cmd,
     parent |-> IF HasParent(i) THEN ParentOf(i) ELSE NoSerial]

MirrorView(m) ==
    [mobiles |-> Range(m.mobiles),
     items |-> {ItemView(m.items[k]) : k \in 1..Len(m.items)},
     packet_start |-> m.packet_start,
     packet_mobile_update |-> m.packet_mobile_update]

(* C12, as stated: in every reachable state the replay of the mirror to an *)
(* attaching client, applied through the world operations to a fresh       *)
(* mirror, produces the same mobiles, the same items with their socket     *)
(* variants and parents, and the same ambient snapshots.                   *)
C12_ReplayRebuildsMirror == MirrorView(Replayed) = MirrorView(Mirror)

-----------------------------------------------------------------------------
(* The mirror when serials do not keep to their ranges: items keyed by a   *)
(* serial of the mobile range or of no range, a mobile keyed by a serial   *)
(* of the item range, containers that contain themselves or each other.    *)

NextSerials ==
    \/ \E p \in WorldItem7Packets({PlayerSerial}) : world_world_item_7(p)
    \/ \E p \in EquipPackets({ItemA, Foreign}, {PlayerSerial}) : world_equip(p)
    \/ \E p \in ContainerUpdatePackets(ItemKeys, ItemKeys) :
           world_container_update(p)
    \/ \E p \in MobileIncomingPackets({PlayerSerial, ItemA}, {Home}, {NoSerial}) :
           world_mobile_incoming(p, FALSE)
    \/ world_container_content(ContainerContentPacket(PlayerSerial, <<Foreign>>))
    \/ \E s \in Removable : world_remove_serial(s)

SpecSerials == Init /\ [][NextSerials]_vars

HasItem(list, s) == world_find_item(list, s) # 0
HasMobile(list, s) == find_mobile(list, s) # 0

(* C14, as stated: after remove_serial(s) the mirror contains no mobile    *)
(* and no item whose serial is s, whichever operation created the record.  *)
(* world_remove_serial looks for a mobile or for an item, by the range of  *)
(* s, and for neither at 0x80000000 and above.                             *)
C14_NoRecordOfSerialLeft ==
    [][\A s \in Removable :
          world_remove_serial(s)
              => ~HasItem(items', s) /\ ~HasMobile(mobiles', s)]_vars

(* C14, amended: after remove_serial(s) with s below 0x40000000 the mirror *)
(* contains no mobile of serial s, and with s from 0x40000000 to           *)
(* 0x7fffffff no item of serial s; a mobile keyed by a serial of the item  *)
(* range stays, and for s of 0x80000000 and above nothing is removed.      *)
(* Removing a mobile removes the items equipped on it and their content.   *)
C14_RecordOfTheRangeRemoved ==
    [][\A s \in Removable :
          world_remove_serial(s)
              => /\ ntohl(s)[1] < 16384 =>
                        /\ ~HasMobile(mobiles', s)
                        /\ \A k \in 1..Len(items') :
                              items'[k].serial \notin DescendantsOf(items, s)
                 /\ (ntohl(s)[1] >= 16384 /\ ntohl(s)[1] < 32768) =>
                        /\ ~HasItem(items', s)
                        /\ mobiles' = mobiles
                 /\ ntohl(s)[1] >= 32768 =>
                        /\ items' = items
                        /\ mobiles' = mobiles]_vars

\* the player has been removed with the item equipped on it and the item in
\* that one
C14_Witness ==
    /\ last.op = "world_remove_serial"
    /\ last.out.serial = PlayerSerial
    /\ last.out.removed = 2
    /\ ~HasMobile(mobiles, PlayerSerial)
    /\ ~HasItem(items, ItemA)
    /\ ~HasItem(items, ItemB)
    /\ HasMobile(mobiles, ItemA)

\* the serials of the items of a list
SerialsOf(list) == {list[k].serial : k \in 1..Len(list)}

(* C15, as stated: whenever an item is deleted from the mirror, by         *)
(* remove_serial or by the sweep of the container content, the items       *)
(* descended from it are deleted in the same operation: no operation       *)
(* leaves an item that has a just deleted item as an ancestor.  The sweep  *)
(* deletes the swept item alone.                                           *)
C15_DeletionTakesDescendants ==
    [][\A x \in SerialsOf(items) \ SerialsOf(items') :
          DescendantsOf(items', x) = {}]_vars

(* C16: update_mobile_update and update_mobile_moving for a serial that    *)
(* has no mobile record create no mobile: the mobiles and the items are    *)
(* the same before and after the call.                                     *)
C16_UnknownMobileNotCreated ==
    [][/\ \A p \in MobileUpdatePackets({PlayerSerial, Mobile2}, Places) :
             (world_mobile_update(p) /\ ~HasMobile(mobiles, p.serial))
                 => mobiles' = mobiles /\ items' = items
       /\ \A p \in MobileMovingPackets({PlayerSerial, Mobile2}, Places) :
             (world_mobile_moving(p) /\ ~HasMobile(mobiles, p.serial))
                 => mobiles' = mobiles /\ items' = items]_vars

\* the player has moved away while the mirror has no mobile at all
C16_Witness ==
    /\ last.op = "world_mobile_moving"
    /\ mobiles = <<>>
    /\ packet_start.x = 101
    /\ packet_start.body = 401

\* socket variant and parent of the item of serial s, which the list holds
ViewOf(list, s) == ItemView(list[world_find_item(list, s)])

\* the items of the serials S that the step keeps have kept variant and parent
KeptAsTheyWere(S) ==
    \A s \in S :
        (HasItem(items, s) /\ HasItem(items', s))
            => ViewOf(items', s) = ViewOf(items, s)

(* C17: the socket variant and the parent of an item are those of the last *)
(* of upsert_world_item(_7), upsert_equip, upsert_container_update and     *)
(* replace_container_content that named it: each of them leaves the item   *)
(* it names with its own variant and parent, and no operation changes the  *)
(* variant or parent of an item it does not name.                          *)
C17_SocketOfLastOperation ==
    [][/\ last'.op = "world_world_item" =>
          \A p \in WorldItemPackets({ItemAFlagged}) :
             world_world_item(p)
                 => /\ HasItem(items', ItemA)
                    /\ ViewOf(items', ItemA) =
                           [serial |-> ItemA, socket |-> "PCK_WorldItem7",
                            parent |-> NoSerial]
                    /\ KeptAsTheyWere({ItemB})
       /\ last'.op = "world_world_item_7" =>
          \A p \in WorldItem7Packets(ItemKeys) :
             world_world_item_7(p)
                 => /\ HasItem(items', p.serial)
                    /\ ViewOf(items', p.serial) =
                           [serial |-> p.serial, socket |-> "PCK_WorldItem7",
                            parent |-> NoSerial]
                    /\ KeptAsTheyWere(ItemKeys \ {p.serial})
       /\ last'.op = "world_equip" =>
          \A p \in EquipPackets(ItemKeys, {PlayerSerial}) :
             world_equip(p)
                 => /\ HasItem(items', p.serial)
                    /\ ViewOf(items', p.serial) =
                           [serial |-> p.serial, socket |-> "PCK_Equip",
                            parent |-> p.parent_serial]
                    /\ KeptAsTheyWere(ItemKeys \ {p.serial})
       /\ last'.op = "world_container_update" =>
          \A p \in ContainerUpdatePackets(ItemKeys, {ItemA, ItemB, Foreign}) :
             world_container_update(p)
                 => /\ HasItem(items', p.item.serial)
                    /\ ViewOf(items', p.item.serial) =
                           [serial |-> p.item.serial,
                            socket |-> "PCK_ContainerUpdate",
                            parent |-> p.item.parent_serial]
                    /\ KeptAsTheyWere(ItemKeys \ {p.item.serial})
       /\ last'.op = "world_container_content" =>
          \A c \in ContentParents, l \in ContentLists :
             world_container_content(ContainerContentPacket(c, l))
                 => /\ \A k \in 1..Len(l) :
                          /\ HasItem(items', l[k])
                          /\ ViewOf(items', l[k]) =
                                 [serial |-> l[k],
                                  socket |-> "PCK_ContainerUpdate",
                                  parent |-> c]
                    /\ KeptAsTheyWere(ItemKeys \ Range(l))
       /\ last'.op \in {"world_container_open", "world_remove_serial",
                        "world_mobile_status"}
             => KeptAsTheyWere(ItemKeys)]_vars

\* an item that a container content had listed has been equipped since
C17_Witness ==
    /\ last.op = "world_equip"
    /\ Len(items) = 1
    /\ items[1].attach_sequence = 1
    /\ ViewOf(items, ItemA) =
           [serial |-> ItemA, socket |-> "PCK_Equip", parent |-> PlayerSerial]

-----------------------------------------------------------------------------
(* The mirror under mobile-incoming packets with equipment lists: entries  *)
(* with and without the hue, in both orders, and entries that follow the   *)
(* terminating zero serial inside the packet.                              *)

\* the bytes of a list of entries, each [serial, hue] with hue a BOOLEAN
RECURSIVE EncodeEntries(_)
EncodeEntries(es) ==
    IF es = <<>> THEN <<>>
    ELSE (IF Head(es).hue THEN EntryWithHue(Head(es).serial)
          ELSE EntryWithoutHue(Head(es).serial))
         \o EncodeEntries(Tail(es))

\* p->items: the entries before the terminator, the terminator, the rest
EquipmentTail(before, after) ==
    EncodeEntries(before) \o NoSerial \o EncodeEntries(after)

EntriesBefore ==
    {<<>>,
     <<[serial |-> ItemA, hue |-> FALSE]>>,
     <<[serial |-> ItemA, hue |-> TRUE], [serial |-> ItemB, hue |-> FALSE]>>,
     <<[serial |-> ItemB, hue |-> FALSE], [serial |-> ItemA, hue |-> TRUE]>>}

EntriesAfter ==
    {<<>>,
     <<[serial |-> ItemB, hue |-> TRUE]>>,
     <<[serial |-> ItemA, hue |-> FALSE]>>}

EquipmentTails ==
    {EquipmentTail(b, a) : b \in EntriesBefore, a \in EntriesAfter}

NextEquipped ==
    \/ \E p \in MobileIncomingPackets({PlayerSerial, Mobile2}, {Home},
                                      EquipmentTails) :
           world_mobile_incoming(p, FALSE)
    \/ \E p \in WorldItem7Packets(ItemKeys) : world_world_item_7(p)
    \/ \E s \in {ItemA, ItemB, Mobile2} : world_remove_serial(s)

SpecEquipped == Init /\ [][NextEquipped]_vars

\* the serials of a list of entries
EntrySerials(es) == {es[k].serial : k \in 1..Len(es)}

(* C18: after upsert_mobile_incoming(p) with an equipment list terminated  *)
(* by a zero serial, every entry before the terminator, with the hue or    *)
(* without, is an item with socket = equipped and parent = p.serial, and   *)
(* no entry after the terminator is upserted.                              *)
C18_EquipmentUpToTerminator ==
    [][last'.op = "world_mobile_incoming" =>
       \A s \in {PlayerSerial, Mobile2}, b \in EntriesBefore,
          a \in EntriesAfter :
          (\E p \in MobileIncomingPackets({s}, {Home}, {EquipmentTail(b, a)}) :
               world_mobile_incoming(p, FALSE))
              => /\ \A k \in 1..Len(b) :
                       /\ HasItem(items', b[k].serial)
                       /\ ViewOf(items', b[k].serial) =
                              [serial |-> b[k].serial, socket |-> "PCK_Equip",
                               parent |-> s]
                       /\ items'[world_find_item(items', b[k].serial)].socket.hue
                              = IF b[k].hue THEN <<4, 210>> ELSE <<0, 0>>
                 /\ \A x \in ItemKeys \ EntrySerials(b) :
                       /\ HasItem(items', x) <=> HasItem(items, x)
                       /\ KeptAsTheyWere({x})
                 /\ SerialsOf(items') \subseteq ItemKeys]_vars

\* the list of Mobile2 has equipped ItemA and has left alone ItemB, which
\* comes after the terminator and lies on the ground
C18_Witness ==
    /\ last.op = "world_mobile_incoming"
    /\ HasMobile(mobiles, Mobile2)
    /\ mobiles[find_mobile(mobiles, Mobile2)].packet_mobile_incoming.tail =
           EquipmentTail(<<[serial |-> ItemA, hue |-> FALSE]>>,
                         <<[serial |-> ItemB, hue |-> TRUE]>>)
    /\ HasItem(items, ItemA)
    /\ ViewOf(items, ItemA) =
           [serial |-> ItemA, socket |-> "PCK_Equip", parent |-> Mobile2]
    /\ HasItem(items, ItemB)
    /\ ViewOf(items, ItemB).socket = "PCK_WorldItem7"

\* the clients that have left the active state
Gone == {ls \in Clients : ls_state[ls] # "active"}

-----------------------------------------------------------------------------
(* The walk coordinator with one client walking two ways through all the   *)
(* sequence bytes; the server acknowledges bytes around the queue head:    *)
(* queued ones, ones just behind the head, and ones at the far edge of the *)
(* half window.                                                            *)

AckOffsets == {0, 1, 3, 127, 128, 129, 130, 255}

AckBytes ==
    {((IF queue = <<>> THEN seq_next ELSE queue[1].seq) + d) % 256 :
        d \in AckOffsets}

NextWalkWindow ==
    \/ \E p \in WalkPackets : connection_walk_request("A", p)
    \/ \E q \in AckBytes :
           connection_walk_ack([cmd |-> "PCK_WalkAck", seq |-> q,
                                notoriety |-> 1])
    \/ \E p \in WalkCancelPackets : connection_walk_cancel(p)

SpecWalkWindow == Init /\ [][NextWalkWindow]_vars

\* seq is one of the 128 bytes that end at ack: ack lies 0 to 127 steps
\* after seq on the circle of the 256 bytes
AtOrBefore(seq, ack) ==
    IF ack >= seq THEN ack - seq <= 127 ELSE ack + 256 - seq <= 127

\* the indices of the queued entries at or before ack
Acknowledged(q, ack) == {k \in 1..Len(q) : AtOrBefore(q[k].seq, ack)}

\* the position the request packet of a queue entry asks for
Asked(entry) ==
    [x |-> entry.packet.x, y |-> entry.packet.y,
     direction |-> entry.packet.direction]

-----------------------------------------------------------------------------
(* remove_item_tree() step by step: the temporary lists of the calls in    *)
(* progress are a stack, the innermost last.  Each step either returns     *)
(* from a call whose temporary list is used up, or takes the next item of  *)
(* the innermost list and enters the call for its serial.  The run is cut  *)
(* off when the steps allowed are used up.                                 *)

\* the items remove_item_tree() leaves in world->items when it has moved no
\* child out of it
NothingMoved(list, parent_serial) == list

\* world->items after the first loop of remove_item_tree(): the direct
\* children are moved out
AfterMove(list, parent_serial) ==
    SelectSeq(list, LAMBDA i : ~is_parent(i, parent_serial))

\* the temporary list after the first loop: each child list_add()ed at the
\* head
TempList(list, parent_serial) ==
    LET children == SelectSeq(list, LAMBDA i : is_parent(i, parent_serial))
    IN [k \in 1..Len(children) |-> children[Len(children) + 1 - k]]

\* the item at the head of the innermost list is deleted when the call for
\* its serial has returned; no call looks at it in between, so the run takes
\* it off the list as it enters that call
RECURSIVE RemoveRun(_, _, _)
RemoveRun(list, stack, steps) ==
    IF stack = <<>>
    THEN [done |-> TRUE, items |-> list]
    ELSE IF steps = 0
    THEN [done |-> FALSE, items |-> list]
    ELSE LET temp == stack[Len(stack)]
         IN IF temp = <<>>
            THEN RemoveRun(list, SubSeq(stack, 1, Len(stack) - 1), steps - 1)
            ELSE RemoveRun(AfterMove(list, Head(temp).serial),
                           Append([stack EXCEPT ![Len(stack)] = Tail(temp)],
                                  TempList(list, Head(temp).serial)),
                           steps - 1)

\* a call of remove_item_tree() for every item and a return from each, and
\* the outermost call
StepsAllowed(list) == 2 * Len(list) + 1

\* world_remove_serial() step by step, on the items
RemoveSerialRun(list, serial) ==
    IF IsMobileRange(ntohl(serial))
    THEN RemoveRun(AfterMove(list, serial), <<TempList(list, serial)>>,
                   StepsAllowed(list))
    ELSE IF IsEntityRange(ntohl(serial))
    THEN LET k == world_find_item(list, serial)
             l2 == IF k # 0 THEN world_remove_item(list, k) ELSE list
         IN RemoveRun(AfterMove(l2, serial), <<TempList(l2, serial)>>,
                      StepsAllowed(list))
    ELSE [done |-> TRUE, items |-> list]

(* C21: remove_serial terminates in every state of the mirror, also when   *)
(* an item is its own parent, two items are each other's parent, or an     *)
(* item and a mobile share a serial: the run of remove_item_tree ends      *)
(* within two steps per item, and leaves the items world_remove_serial     *)
(* leaves.                                                                 *)
C21_RemoveSerialTerminates ==
    [][\A s \in Removable :
          /\ RemoveSerialRun(items, s).done
          /\ world_remove_serial(s) => items' = RemoveSerialRun(items, s).items]_vars

\* two items that are each other's parent, one of them sharing its serial
\* with a mobile; the removal of that serial ends and takes both
C21_Witness ==
    /\ HasItem(items, ItemA) /\ HasItem(items, ItemB)
    /\ ViewOf(items, ItemA).parent = ItemB
    /\ ViewOf(items, ItemB).parent = ItemA
    /\ HasMobile(mobiles, ItemA)
    /\ RemoveSerialRun(items, ItemA).done
    /\ ~HasItem(RemoveSerialRun(items, ItemA).items, ItemA)
    /\ ~HasItem(RemoveSerialRun(items, ItemA).items, ItemB)

-----------------------------------------------------------------------------
\* the player's mobile has no packet_mobile_incoming, or one with the x, y
\* and direction of packet_start
PlayerRecordAgrees(list, start) ==
    LET k == find_mobile(list, start.serial)
    IN (k # 0 /\ list[k].packet_mobile_incoming # nullptr)
         => /\ list[k].packet_mobile_incoming.x = start.x
            /\ list[k].packet_mobile_incoming.y = start.y
            /\ list[k].packet_mobile_incoming.direction = start.direction

\* C22 as stated: in every state, after whichever operation, a stored
\* packet_mobile_incoming of the player's mobile has the x, y and direction
\* of packet_start.
C22_PlayerRecordFollowsStart == PlayerRecordAgrees(mobiles, packet_start)

(* C22: after world_mobile_incoming, world_mobile_update and               *)
(* world_mobile_moving of the player's serial, and after world_walked and  *)
(* world_walk_cancel, a stored packet_mobile_incoming of the player's      *)
(* mobile has the x, y and direction of packet_start; world_mobile_zone    *)
(* moves packet_start and leaves the mobiles as they were.                 *)
C22_PlayerRecordFollowsAllButZone ==
    [][/\ last'.op = "world_mobile_incoming" =>
            \A p \in MobileIncomingPackets({PlayerSerial}, Places, {NoSerial}),
               oom \in BOOLEAN :
                world_mobile_incoming(p, oom)
                    => PlayerRecordAgrees(mobiles', packet_start')
       /\ last'.op = "world_mobile_update" =>
            \A p \in MobileUpdatePackets({PlayerSerial}, Places) :
                world_mobile_update(p)
                    => PlayerRecordAgrees(mobiles', packet_start')
       /\ last'.op = "world_mobile_moving" =>
            \A p \in MobileMovingPackets({PlayerSerial}, Places) :
                world_mobile_moving(p)
                    => PlayerRecordAgrees(mobiles', packet_start')
       /\ last'.op = "world_walked" =>
            PlayerRecordAgrees(mobiles', packet_start')
       /\ last'.op = "world_walk_cancel" =>
            PlayerRecordAgrees(mobiles', packet_start')
       /\ last'.op = "world_mobile_zone" => mobiles' = mobiles]_vars

\* the player has walked from the place its stored packet_mobile_incoming
\* was received at, and the record has followed
C22_Witness ==
    /\ last.op = "world_walked"
    /\ HasMobile(mobiles, PlayerSerial)
    /\ mobiles[find_mobile(mobiles, PlayerSerial)].packet_mobile_incoming # nullptr
    /\ mobiles[find_mobile(mobiles, PlayerSerial)].packet_mobile_incoming.body = Home.body
    /\ mobiles[find_mobile(mobiles, PlayerSerial)].packet_mobile_incoming.x = Away.x
    /\ packet_start.x = Away.x

-----------------------------------------------------------------------------
\* the serial in the socket of an item whose socket is set
SocketSerial(item) ==
    IF item.socket.cmd = "PCK_ContainerUpdate"
    THEN item.socket.item.serial
    ELSE item.socket.serial

(* C23: in every state of the mirror the serial in the socket of an item   *)
(* whose socket is set is the serial the item is kept under (for an item   *)
(* of a rev-6 world item: the serial sent with its high bit cleared), and  *)
(* a stored container-open record has the item's own serial.               *)
C23_RecordsNameTheirItem ==
    \A k \in 1..Len(items) :
        /\ items[k].socket.cmd \in SocketVariants
             => SocketSerial(items[k]) = items[k].serial
        /\ items[k].packet_container_open.cmd # NoCmd
             => items[k].packet_container_open.serial = items[k].serial

\* a rev-6 world item sent with the high bit set is kept under the serial
\* without it, with a container-open record of its own
C23_Witness ==
    /\ last.op = "world_world_item"
    /\ HasItem(items, ItemA)
    /\ ~HasItem(items, ItemAFlagged)
    /\ ViewOf(items, ItemA).socket = "PCK_WorldItem7"
    /\ items[world_find_item(items, ItemA)].socket.serial = ItemA
    /\ items[world_find_item(items, ItemA)].packet_container_open.cmd # NoCmd
    /\ items[world_find_item(items, ItemA)].packet_container_open.serial = ItemA

====
